---- MODULE Spec2Model ----
(***************************************************************************)
(* Model of src/main.py: the command-line entry (lines 384-437) and        *)
(* NewsletterAgents.manual_search / NewsletterAgents.run_pipeline.         *)
(*                                                                         *)
(* Text is a sequence of one-character strings, so that slicing            *)
(* (s[:300], s[:1000]), concatenation and str() are computed and never     *)
(* assumed.  A Python value is a record [tag, v]: tag says what it is      *)
(* ("str", "none"), v holds its text.  A dict is a record whose DOMAIN is   *)
(* the set of keys it has.                                                 *)
(***************************************************************************)
EXTENDS Integers, Sequences, FiniteSets, TLC

VARIABLES
    pc,                        \* position of the single thread of control
    exa_api_key,               \* main.py:388
    proceed,                   \* main.py:394
    agents,                    \* main.py:401, the NewsletterAgents object
    user_query,                \* main.py:406/409, run_pipeline's user_input
    primary_search_results,    \* main.py:222
    secondary_search_results,  \* main.py:223
    search_summary,            \* main.py:226-245
    research_history,          \* main.py:260
    insights_history,          \* main.py:298
    writing_history,           \* main.py:327
    editing_history,           \* main.py:353
    research_result,           \* main.py:266
    insights_result,           \* main.py:302
    writing_result,            \* main.py:331
    editing_result,            \* main.py:357
    research_content,          \* main.py:269-278
    insights_content,          \* main.py:305-312
    newsletter_draft,          \* main.py:334-341
    final_newsletter,          \* main.py:360-367
    result,                    \* main.py:416, run_pipeline's return value
    raised,                    \* the exception in flight, if any
    calls,                     \* the collaborator calls made so far, in order
    printed,                   \* what the entry point wrote to standard output
    exit_status                \* the process's exit status once it has exited

vars == <<pc, exa_api_key, proceed, agents, user_query,
          primary_search_results, secondary_search_results, search_summary,
          research_history, insights_history, writing_history, editing_history,
          research_result, insights_result, writing_result, editing_result,
          research_content, insights_content, newsletter_draft, final_newsletter,
          result, raised, calls, printed, exit_status>>

----------------------------------------------------------------------------
(* Bounds of the model. *)

\* The longest result list the search tool returns in the model.
MaxResults == 2

\* How far the longest content preview exceeds the preview cut.
PreviewExcess == 5

----------------------------------------------------------------------------
(* Program constants. *)

PrimaryDaysAgo == 30

SecondaryDaysAgo == 60

MaxResultsRequested == 5

PreviewCut == 300

SummaryCut == 1000

----------------------------------------------------------------------------
(* Python values. *)

Str(s) == [tag |-> "str", v |-> s]

None == [tag |-> "none", v |-> <<>>]

\* A local name that has not been assigned yet.
Unset == [tag |-> "unset", v |-> <<>>]

NoneText == <<"N","o","n","e">>

\* str(x), which is also what an f-string renders for {x}.
PyStr(x) == IF x.tag = "none" THEN NoneText ELSE x.v

\* bool(x): None and the empty string are falsy.
Truthy(x) == x.tag # "none" /\ x.v # <<>>

\* s[:n]
Take(s, n) == SubSeq(s, 1, IF Len(s) < n THEN Len(s) ELSE n)

\* s.lower() on the characters the model uses.
LowerChar(c) == IF c = "Y" THEN "y" ELSE IF c = "N" THEN "n" ELSE c

Lower(s) == [i \in 1..Len(s) |-> LowerChar(s[i])]

DigitChar(d) == <<"0","1","2","3","4","5","6","7","8","9">>[d + 1]

RECURSIVE IntStr(_)
\* str(n) of a natural number.
IntStr(n) == IF n < 10 THEN <<DigitChar(n)>>
             ELSE IntStr(n \div 10) \o <<DigitChar(n % 10)>>

RECURSIVE Join(_, _)
\* sep.join(words)
Join(words, sep) ==
    IF Len(words) = 0 THEN <<>>
    ELSE IF Len(words) = 1 THEN words[1]
    ELSE words[1] \o sep \o Join(Tail(words), sep)

\* A call's way out: a value returned, or an exception raised.
Return(value) == [kind |-> "return", value |-> value]

Raise(msg) == [kind |-> "raise", msg |-> msg]

\* d.get(k): None when the key is absent.
Get(d, k) == IF k \in DOMAIN d THEN d[k] ELSE None

----------------------------------------------------------------------------
(* The literal text of the prompts and of the digest. *)

PrimaryQueryPrefix == <<"l","a","t","e","s","t"," ","d","e","v","e","l","o","p","m","e","n","t",
       "s"," ","i","n"," ">>

SecondaryQueryPrefix == <<"i","m","p","a","c","t"," ","o","f"," ">>

UnknownError == <<"U","n","k","n","o","w","n"," ","e","r","r","o","r">>

SummaryHeader == <<"S","E","A","R","C","H"," ","R","E","S","U","L","T","S",":","\n","\n">>

SearchFor == <<"S","e","a","r","c","h"," ","f","o","r"," ","'">>

Found == <<"'"," ","f","o","u","n","d"," ">>

ResultsColon == <<" ","r","e","s","u","l","t","s",":","\n","\n">>

ResultOpen == <<"[","R","e","s","u","l","t"," ">>

ResultClose == <<"]","\n">>

TitleLabel == <<"T","i","t","l","e",":"," ">>

UrlLabel == <<"U","R","L",":"," ">>

PublishedLabel == <<"P","u","b","l","i","s","h","e","d",":"," ">>

PreviewLabel == <<"P","r","e","v","i","e","w",":"," ">>

PreviewSuffix == <<".",".",".","\n","\n">>

Newline == <<"\n">>

Ellipsis == <<".",".",".">>

ResearchTask == <<"R","e","s","e","a","r","c","h"," ","t","a","s","k",":"," ","A","n","a",
       "l","y","z","e"," ","t","h","e","s","e"," ","s","e","a","r","c","h"," ",
       "r","e","s","u","l","t","s"," ","a","b","o","u","t"," ">>

DotBlank == <<".","\n","\n">>

Blank == <<"\n","\n">>

ResearchTail ==
    <<"O","r","g","a","n","i","z","e"," ","t","h","e","s","e"," ","f","i","n",
       "d","i","n","g","s"," ","i","n","t","o"," ","c","l","e","a","r"," ","r",
       "e","s","e","a","r","c","h"," ","w","i","t","h"," ","r","e","l","i","a",
       "b","l","e"," ","s","o","u","r","c","e","s","."," ">>
    \o <<"I","n","c","l","u","d","e"," ","t","h","e"," ","s","i","g","n","i","f",
       "i","c","a","n","c","e"," ","o","f"," ","e","a","c","h"," ","d","e","v",
       "e","l","o","p","m","e","n","t"," ","a","n","d"," ","i","t","s"," ","b",
       "r","o","a","d","e","r"," ","i","n","d","u","s","t","r","y"," ","i","m",
       "p","a","c","t","."," ">>
    \o <<"I","f"," ","y","o","u"," ","n","e","e","d"," ","m","o","r","e"," ","s",
       "p","e","c","i","f","i","c"," ","i","n","f","o","r","m","a","t","i","o",
       "n",","," ","u","s","e"," ","t","h","e"," ","s","e","a","r","c","h","_",
       "a","n","d","_","c","o","n","t","e","n","t","s"," ","t","o","o","l"," ",
       "w","i","t","h"," ","a"," ","s","p","e","c","i","f","i","c"," ","q","u",
       "e","r","y",".">>

InsightsTask == <<"A","d","d"," ","i","n","s","i","g","h","t","s"," ","t","o"," ","t","h",
       "e"," ","f","o","l","l","o","w","i","n","g"," ","r","e","s","e","a","r",
       "c","h"," ","a","b","o","u","t"," ">>

ResearchToAnalyze == <<"R","e","s","e","a","r","c","h"," ","t","o"," ","a","n","a","l","y","z",
       "e",":","\n">>

AlsoConsider == <<"A","l","s","o"," ","c","o","n","s","i","d","e","r"," ","t","h","e","s",
       "e"," ","a","d","d","i","t","i","o","n","a","l"," ","s","e","a","r","c",
       "h"," ","r","e","s","u","l","t","s",":","\n">>

InsightsTail ==
    <<"I","f"," ","y","o","u"," ","n","e","e","d"," ","a","n","y"," ","s","p",
       "e","c","i","f","i","c"," ","i","n","f","o","r","m","a","t","i","o","n",
       ","," ","u","s","e"," ","t","h","e"," ","s","e","a","r","c","h","_","a",
       "n","d","_","c","o","n","t","e","n","t","s"," ","t","o","o","l"," ","w",
       "i","t","h"," ","a"," ","s","p","e","c","i","f","i","c"," ","q","u","e",
       "r","y",".">>

WritingTask == <<"T","r","a","n","s","f","o","r","m"," ","t","h","e","s","e"," ","i","n",
       "s","i","g","h","t","s"," ","a","b","o","u","t"," ">>

WritingTail == <<" ","i","n","t","o"," ","e","n","g","a","g","i","n","g"," ","n","e","w",
       "s","l","e","t","t","e","r"," ","c","o","n","t","e","n","t",":","\n",
       "\n">>

EditingTask == <<"P","r","o","o","f","r","e","a","d"," ","a","n","d"," ","r","e","f","i",
       "n","e"," ","t","h","i","s"," ","n","e","w","s","l","e","t","t","e","r",
       " ","d","r","a","f","t"," ","a","b","o","u","t"," ">>

EditingTail ==
    <<"."," ","E","n","s","u","r","e"," ","a","l","l"," ","s","o","u","r","c",
       "e","s"," ","a","r","e"," ","p","r","o","p","e","r","l","y"," ","c","i",
       "t","e","d"," ","a","n","d"," ","t","h","e"," ","c","o","n","t","e","n",
       "t"," ","i","s"," ","e","n","g","a","g","i","n","g"," ","a","n","d"," ",
       "i","n","f","o","r","m","a","t","i","v","e",":","\n","\n">>

----------------------------------------------------------------------------
(* The search tool, an external collaborator: what it may answer. *)

\* A content preview of n characters; the characters differ along the text
\* so that a cut at the wrong place shows.
PreviewText(n, shift) == [i \in 1..n |-> DigitChar((i + shift) % 10)]

\* A full record whose preview is longer than the cut.
RecordLong ==
    [title |-> Str(<<"G","P","T"," ","n","e","w","s">>), url |-> Str(<<"h","t","t","p","s",":","/","/","a",".","i","o","/","1">>),
     published_date |-> Str(<<"2","0","2","5","-","0","1","-","0","2">>),
     content_preview |-> Str(PreviewText(PreviewCut + PreviewExcess, 0))]

\* No title key, a published date that is None, a short preview.
RecordNoTitle ==
    [url |-> Str(<<"h","t","t","p","s",":","/","/","b",".","i","o","/","2">>), published_date |-> None,
     content_preview |-> Str(<<"S","h","o","r","t"," ","t","e","x","t"," ","a","b","o","u","t"," ","c",
       "h","i","p","s"," ","a","n","d"," ","m","o","d","e","l","s",","," ">> \o PreviewText(90, 3))]

\* A full record whose preview is exactly as long as the cut.
RecordExact ==
    [title |-> Str(<<"I","m","p","a","c","t">>), url |-> Str(<<"h","t","t","p","s",":","/","/","c",".","i","o","/","3">>),
     published_date |-> Str(<<"2","0","2","4","-","1","2","-","2","4">>),
     content_preview |-> Str(PreviewText(PreviewCut, 7))]

\* A url only, with an empty preview.
RecordBare ==
    [url |-> Str(<<"h","t","t","p","s",":","/","/","d",".","i","o","/","4">>), content_preview |-> Str(<<>>)]

RecordCatalog == <<RecordLong, RecordNoTitle, RecordExact, RecordBare>>

\* The n records the provider returns, in its relevance order.
ResultList(n, first) ==
    [i \in 1..n |-> RecordCatalog[((first + i - 2) % Len(RecordCatalog)) + 1]]

\* The answers of search_tool.run(search_input): an exception, a dict with
\* success false, or a dict with success true and 0..MaxResults records.
ToolOutcomes(query, days_ago) ==
    {Raise(<<"t","i","m","e","o","u","t">>),
     Return([success |-> FALSE, error_message |-> Str(<<"q","u","o","t","a">>)])}
    \cup {Return([success |-> TRUE, search_query |-> Str(query),
                   total_results_found |-> n,
                   results |-> ResultList(n, IF days_ago = PrimaryDaysAgo
                                             THEN 1 ELSE 3)])
          : n \in 0..MaxResults}

\* results.get("success")
GetSuccess(d) == IF "success" \in DOMAIN d THEN d.success ELSE FALSE

\* results.get("results", [])
GetResults(d) == IF "results" \in DOMAIN d THEN d.results ELSE <<>>

\* results.get("error_message", "Unknown error")
GetErrorMessage(d) ==
    IF "error_message" \in DOMAIN d THEN d.error_message ELSE Str(UnknownError)

\* manual_search without its except clause: the tool's exception leaves it.
manual_search_uncaught(outcome) ==
    IF outcome.kind = "raise"
    THEN Raise(outcome.msg)
    ELSE IF GetSuccess(outcome.value)
         THEN Return(outcome.value)
         ELSE Return([success |-> FALSE,
                      error_message |-> GetErrorMessage(outcome.value)])

\* manual_search: how it ends for an answer of the tool.  The try block
\* turns an exception of the tool into a dict with success false.
manual_search(outcome) ==
    IF outcome.kind = "raise"
    THEN Return([success |-> FALSE, error_message |-> Str(outcome.msg)])
    ELSE IF GetSuccess(outcome.value)
         THEN Return(outcome.value)
         ELSE Return([success |-> FALSE,
                      error_message |-> GetErrorMessage(outcome.value)])

----------------------------------------------------------------------------
(* The digest of the search results. *)

\* The lines of one result with the preview written whole, the slice
\* forgotten.
FormatResultUncut(i, r) ==
    ResultOpen \o IntStr(i) \o ResultClose
    \o TitleLabel \o PyStr(Get(r, "title")) \o Newline
    \o UrlLabel \o PyStr(Get(r, "url")) \o Newline
    \o PublishedLabel \o PyStr(Get(r, "published_date")) \o Newline
    \o (IF Truthy(Get(r, "content_preview"))
        THEN PreviewLabel \o Get(r, "content_preview").v \o PreviewSuffix
        ELSE <<>>)

\* The lines of one result.
FormatResult(i, r) ==
    ResultOpen \o IntStr(i) \o ResultClose
    \o TitleLabel \o PyStr(Get(r, "title")) \o Newline
    \o UrlLabel \o PyStr(Get(r, "url")) \o Newline
    \o PublishedLabel \o PyStr(Get(r, "published_date")) \o Newline
    \o (IF Truthy(Get(r, "content_preview"))
        THEN PreviewLabel \o Take(Get(r, "content_preview").v, PreviewCut)
             \o PreviewSuffix
        ELSE <<>>)

RECURSIVE FormatResults(_, _)
\* The loop over enumerate(results), from index i on.
FormatResults(results, i) ==
    IF i > Len(results) THEN <<>>
    ELSE FormatResult(i, results[i]) \o FormatResults(results, i + 1)

SectionHead(d) ==
    SearchFor \o PyStr(Get(d, "search_query")) \o Found
    \o IntStr(Len(GetResults(d))) \o ResultsColon

PrimarySection(d) ==
    IF GetSuccess(d)
    THEN SectionHead(d) \o FormatResults(GetResults(d), 1)
    ELSE <<>>

\* The secondary section written without looking at success.
SecondarySectionUnguarded(d) ==
    Newline \o SectionHead(d) \o FormatResults(GetResults(d), 1)

SecondarySection(d) ==
    IF GetSuccess(d)
    THEN Newline \o SectionHead(d) \o FormatResults(GetResults(d), 1)
    ELSE <<>>

BuildSummary(primary, secondary) ==
    SummaryHeader \o PrimarySection(primary) \o SecondarySection(secondary)

----------------------------------------------------------------------------
(* The agents, external collaborators: what run() may answer. *)

\* A response object: the attributes it has, their values, and its str().
Response(has, rm, c, rc, repr) ==
    [has |-> has, response_message |-> rm, content |-> c,
     response_content |-> rc, repr |-> repr]

NoResponse == Response({}, Unset, Unset, Unset, <<>>)

\* The shape the agent framework documents: response_message holds the text.
RespMessage ==
    Response({"response_message"}, Str(<<"F","i","n","d","i","n","g","s">>), Unset, Unset, <<"<","O","u","t",">">>)

RespContentOnly ==
    Response({"content"}, Unset, Str(<<"B","o","d","y">>), Unset, <<"<","O","u","t",">">>)

RespContentBoth ==
    Response({"content", "response_content"}, Unset, Str(<<"M","a","i","n">>),
             Str(<<"A","l","t">>), <<"<","O","u","t",">">>)

RespResponseContent ==
    Response({"response_content"}, Unset, Unset, Str(<<"R","e","p","l","y">>), <<"<","O","u","t",">">>)

\* None of the recognized attributes.
RespOpaque == Response({}, Unset, Unset, Unset, <<"<","O","b","j",">">>)

\* response_message is there and holds None; the text is elsewhere.
RespNull ==
    Response({"response_message", "content", "response_content"}, None,
             Str(<<"T","e","x","t">>), Str(<<"O","t","h","e","r">>), <<"<","O","u","t",">">>)

Responses == {RespMessage, RespContentOnly, RespContentBoth,
              RespResponseContent, RespOpaque, RespNull}

\* agent.run(empty_input, history=...): a response, or an exception.
AgentOutcomes == {Raise(<<"a","p","i"," ","e","r","r","o","r">>)} \cup {Return(r) : r \in Responses}

\* hasattr(o, a)
HasAttr(o, a) == a \in o.has

\* main.py:269-278
ExtractResearch(o) ==
    IF HasAttr(o, "response_message") THEN o.response_message
    ELSE IF HasAttr(o, "content") THEN o.content
    ELSE IF HasAttr(o, "response_content") THEN o.response_content
    ELSE Str(o.repr)

\* main.py:305-312
ExtractInsights(o) ==
    IF HasAttr(o, "response_message") THEN o.response_message
    ELSE IF HasAttr(o, "content") THEN o.content
    ELSE IF HasAttr(o, "response_content") THEN o.response_content
    ELSE Str(o.repr)

\* The writing stage's probe with response_content tried before content.
ExtractWritingReordered(o) ==
    IF HasAttr(o, "response_message") THEN o.response_message
    ELSE IF HasAttr(o, "response_content") THEN o.response_content
    ELSE IF HasAttr(o, "content") THEN o.content
    ELSE Str(o.repr)

\* main.py:334-341
ExtractWriting(o) ==
    IF HasAttr(o, "response_message") THEN o.response_message
    ELSE IF HasAttr(o, "content") THEN o.content
    ELSE IF HasAttr(o, "response_content") THEN o.response_content
    ELSE Str(o.repr)

\* main.py:360-367
ExtractEditing(o) ==
    IF HasAttr(o, "response_message") THEN o.response_message
    ELSE IF HasAttr(o, "content") THEN o.content
    ELSE IF HasAttr(o, "response_content") THEN o.response_content
    ELSE Str(o.repr)

----------------------------------------------------------------------------
(* The prompts. *)

\* main.py:250-256
ResearchMessage(topic, summary) ==
    ResearchTask \o topic \o DotBlank \o summary \o Blank \o ResearchTail

\* The insights prompt with the digest embedded whole, the slice forgotten.
InsightsMessageUncut(topic, research, summary) ==
    InsightsTask \o topic \o DotBlank
    \o ResearchToAnalyze \o PyStr(research) \o Blank
    \o AlsoConsider \o summary \o Ellipsis \o Blank
    \o InsightsTail

\* main.py:290-295
InsightsMessage(topic, research, summary) ==
    InsightsTask \o topic \o DotBlank
    \o ResearchToAnalyze \o PyStr(research) \o Blank
    \o AlsoConsider \o Take(summary, SummaryCut) \o Ellipsis \o Blank
    \o InsightsTail

\* main.py:324
WritingMessage(topic, insights) ==
    WritingTask \o topic \o WritingTail \o PyStr(insights)

\* main.py:347-350
EditingMessage(topic, draft) ==
    EditingTask \o topic \o EditingTail \o PyStr(draft)

\* A history of one user turn.
History(message) == <<[role |-> "user", content |-> message]>>

----------------------------------------------------------------------------
(* The state before the entry point runs. *)

NoDict == [unset |-> TRUE]

NoException == [origin |-> "none", msg |-> <<>>]

Init ==
    /\ pc = "start"
    /\ exa_api_key = Unset
    /\ proceed = <<>>
    /\ agents = "none"
    /\ user_query = <<>>
    /\ primary_search_results = NoDict
    /\ secondary_search_results = NoDict
    /\ search_summary = <<>>
    /\ research_history = <<>>
    /\ insights_history = <<>>
    /\ writing_history = <<>>
    /\ editing_history = <<>>
    /\ research_result = NoResponse
    /\ insights_result = NoResponse
    /\ writing_result = NoResponse
    /\ editing_result = NoResponse
    /\ research_content = Unset
    /\ insights_content = Unset
    /\ newsletter_draft = Unset
    /\ final_newsletter = Unset
    /\ result = NoDict
    /\ raised = NoException
    /\ calls = <<>>
    /\ printed = {}
    /\ exit_status = -1

pipelineVars == <<primary_search_results, secondary_search_results,
                  search_summary, research_history, insights_history,
                  writing_history, editing_history, research_result,
                  insights_result, writing_result, editing_result,
                  research_content, insights_content, newsletter_draft,
                  final_newsletter, result, raised, calls>>

----------------------------------------------------------------------------
(* The command-line entry, before the pipeline. *)

\* What os.getenv("EXA_API_KEY") may give.
Environments == {None, Str(<<>>), Str(<<"k","e","y">>)}

\* What the user may type at a yes/no prompt.
Answers == {<<"y">>, <<"Y">>, <<"n">>, <<"y","e","s">>, <<>>}

\* sys.argv[1:]
ArgumentLists == {<<>>, <<<<"e","d","g","e">>, <<"a","i">>>>}

\* What the user may type at the topic prompt.
Topics == {<<"e","d","g","e"," ","a","i">>}

\* main.py:388-392
ReadEnvironment(env) ==
    /\ pc = "start"
    /\ exa_api_key' = env
    /\ IF ~Truthy(env)
       THEN /\ printed' = printed \cup {"warning"}
            /\ pc' = "gate"
       ELSE /\ printed' = printed
            /\ pc' = "create"
    /\ UNCHANGED <<proceed, agents, user_query, exit_status>>
    /\ UNCHANGED pipelineVars

\* The gate without its sys.exit(1): a refusal falls through to the agents.
GateFallsThrough(answer) ==
    /\ pc = "gate"
    /\ proceed' = Lower(answer)
    /\ printed' = printed \cup {"prompt"}
                  \cup (IF Lower(answer) # <<"y">> THEN {"exiting"} ELSE {})
    /\ exit_status' = exit_status
    /\ pc' = "create"
    /\ UNCHANGED <<exa_api_key, agents, user_query>>
    /\ UNCHANGED pipelineVars

\* main.py:394-397
Gate(answer) ==
    /\ pc = "gate"
    /\ proceed' = Lower(answer)
    /\ IF Lower(answer) # <<"y">>
       THEN /\ printed' = printed \cup {"prompt", "exiting"}
            /\ exit_status' = 1
            /\ pc' = "exited"
       ELSE /\ printed' = printed \cup {"prompt"}
            /\ exit_status' = exit_status
            /\ pc' = "create"
    /\ UNCHANGED <<exa_api_key, agents, user_query>>
    /\ UNCHANGED pipelineVars

\* main.py:400-401
CreateAgents ==
    /\ pc = "create"
    /\ agents' = "constructed"
    /\ printed' = printed \cup {"initializing"}
    /\ pc' = "query"
    /\ UNCHANGED <<exa_api_key, proceed, user_query, exit_status>>
    /\ UNCHANGED pipelineVars

\* main.py:404-412
GetUserQuery(argv, typed) ==
    /\ pc = "query"
    /\ user_query' = IF Len(argv) > 0 THEN Join(argv, <<" ">>) ELSE typed
    /\ pc' = "search1"
    /\ UNCHANGED <<exa_api_key, proceed, agents, printed, exit_status>>
    /\ UNCHANGED pipelineVars

mainVars == <<exa_api_key, proceed, agents, user_query, printed, exit_status>>

----------------------------------------------------------------------------
(* run_pipeline, one action per collaborator call. *)

SearchCall(query, days_ago, outcome) ==
    [callee |-> "search_tool", query |-> query, days_ago |-> days_ago,
     max_results |-> MaxResultsRequested, outcome |-> outcome]

AgentCall(agent, outcome) ==
    [callee |-> agent, query |-> <<>>, days_ago |-> 0, max_results |-> 0,
     outcome |-> outcome]

\* How the call to the tool ended, as the log records it.
SearchOutcome(outcome) ==
    IF outcome.kind = "raise" THEN "raise"
    ELSE IF GetSuccess(outcome.value) THEN "ok" ELSE "fail"

\* An exception leaves run_pipeline for the except clause of main.py:433.
Propagate(origin, msg) ==
    /\ raised' = [origin |-> origin, msg |-> msg]
    /\ pc' = "handler"

\* The primary search with the secondary search made only after a success.
PrimarySearchGating(outcome) ==
    /\ pc = "search1"
    /\ calls' = Append(calls, SearchCall(PrimaryQueryPrefix \o user_query,
                                         PrimaryDaysAgo, SearchOutcome(outcome)))
    /\ LET r == manual_search(outcome) IN
       /\ r.kind = "return"
       /\ primary_search_results' = r.value
       /\ pc' = IF GetSuccess(r.value) THEN "search2" ELSE "digest"
       /\ UNCHANGED raised
    /\ UNCHANGED mainVars
    /\ UNCHANGED <<secondary_search_results, search_summary, research_history,
                   insights_history, writing_history, editing_history,
                   research_result, insights_result, writing_result,
                   editing_result, research_content, insights_content,
                   newsletter_draft, final_newsletter, result>>

\* main.py:222
PrimarySearch(outcome) ==
    /\ pc = "search1"
    /\ calls' = Append(calls, SearchCall(PrimaryQueryPrefix \o user_query,
                                         PrimaryDaysAgo, SearchOutcome(outcome)))
    /\ LET r == manual_search(outcome) IN
       IF r.kind = "raise"
       THEN /\ Propagate("search_tool", r.msg)
            /\ UNCHANGED primary_search_results
       ELSE /\ primary_search_results' = r.value
            /\ pc' = "search2"
            /\ UNCHANGED raised
    /\ UNCHANGED mainVars
    /\ UNCHANGED <<secondary_search_results, search_summary, research_history,
                   insights_history, writing_history, editing_history,
                   research_result, insights_result, writing_result,
                   editing_result, research_content, insights_content,
                   newsletter_draft, final_newsletter, result>>

\* main.py:223
SecondarySearch(outcome) ==
    /\ pc = "search2"
    /\ calls' = Append(calls, SearchCall(SecondaryQueryPrefix \o user_query,
                                         SecondaryDaysAgo, SearchOutcome(outcome)))
    /\ LET r == manual_search(outcome) IN
       IF r.kind = "raise"
       THEN /\ Propagate("search_tool", r.msg)
            /\ UNCHANGED secondary_search_results
       ELSE /\ secondary_search_results' = r.value
            /\ pc' = "digest"
            /\ UNCHANGED raised
    /\ UNCHANGED mainVars
    /\ UNCHANGED <<primary_search_results, search_summary, research_history,
                   insights_history, writing_history, editing_history,
                   research_result, insights_result, writing_result,
                   editing_result, research_content, insights_content,
                   newsletter_draft, final_newsletter, result>>

\* main.py:225-245
BuildDigest ==
    /\ pc = "digest"
    /\ search_summary' = BuildSummary(primary_search_results,
                                      secondary_search_results)
    /\ pc' = "research"
    /\ UNCHANGED mainVars
    /\ UNCHANGED <<primary_search_results, secondary_search_results,
                   research_history, insights_history, writing_history,
                   editing_history, research_result, insights_result,
                   writing_result, editing_result, research_content,
                   insights_content, newsletter_draft, final_newsletter,
                   result, raised, calls>>

\* main.py:247-286
Research(outcome) ==
    /\ pc = "research"
    /\ research_history' = History(ResearchMessage(user_query, search_summary))
    /\ calls' = Append(calls, AgentCall("researcher", outcome.kind))
    /\ IF outcome.kind = "raise"
       THEN /\ Propagate("researcher", outcome.msg)
            /\ UNCHANGED <<research_result, research_content>>
       ELSE /\ research_result' = outcome.value
            /\ research_content' = ExtractResearch(outcome.value)
            /\ pc' = "insights"
            /\ UNCHANGED raised
    /\ UNCHANGED mainVars
    /\ UNCHANGED <<primary_search_results, secondary_search_results,
                   search_summary, insights_history, writing_history,
                   editing_history, insights_result, writing_result,
                   editing_result, insights_content, newsletter_draft,
                   final_newsletter, result>>

\* The insights stage with a retry: a failed call is made again.
InsightsRetried(outcome) ==
    /\ pc = "insights"
    /\ insights_history' =
           History(InsightsMessage(user_query, research_content, search_summary))
    /\ calls' = Append(calls, AgentCall("insights_expert", outcome.kind))
    /\ IF outcome.kind = "raise"
       THEN /\ Len(calls) < 6
            /\ pc' = "insights"
            /\ UNCHANGED <<insights_result, insights_content>>
       ELSE /\ insights_result' = outcome.value
            /\ insights_content' = ExtractInsights(outcome.value)
            /\ pc' = "writing"
    /\ UNCHANGED raised
    /\ UNCHANGED mainVars
    /\ UNCHANGED <<primary_search_results, secondary_search_results,
                   search_summary, research_history, writing_history,
                   editing_history, research_result, writing_result,
                   editing_result, research_content, newsletter_draft,
                   final_newsletter, result>>

\* main.py:288-320
Insights(outcome) ==
    /\ pc = "insights"
    /\ insights_history' =
           History(InsightsMessage(user_query, research_content, search_summary))
    /\ calls' = Append(calls, AgentCall("insights_expert", outcome.kind))
    /\ IF outcome.kind = "raise"
       THEN /\ Propagate("insights_expert", outcome.msg)
            /\ UNCHANGED <<insights_result, insights_content>>
       ELSE /\ insights_result' = outcome.value
            /\ insights_content' = ExtractInsights(outcome.value)
            /\ pc' = "writing"
            /\ UNCHANGED raised
    /\ UNCHANGED mainVars
    /\ UNCHANGED <<primary_search_results, secondary_search_results,
                   search_summary, research_history, writing_history,
                   editing_history, research_result, writing_result,
                   editing_result, research_content, newsletter_draft,
                   final_newsletter, result>>

\* The writing stage with a running transcript: the writer's turn is added
\* to the turns the insights expert was given.
WritingCumulative(outcome) ==
    /\ pc = "writing"
    /\ writing_history' =
           insights_history
           \o History(WritingMessage(user_query, insights_content))
    /\ calls' = Append(calls, AgentCall("writer", outcome.kind))
    /\ IF outcome.kind = "raise"
       THEN /\ Propagate("writer", outcome.msg)
            /\ UNCHANGED <<writing_result, newsletter_draft>>
       ELSE /\ writing_result' = outcome.value
            /\ newsletter_draft' = ExtractWriting(outcome.value)
            /\ pc' = "editing"
            /\ UNCHANGED raised
    /\ UNCHANGED mainVars
    /\ UNCHANGED <<primary_search_results, secondary_search_results,
                   search_summary, research_history, insights_history,
                   editing_history, research_result, insights_result,
                   editing_result, research_content, insights_content,
                   final_newsletter, result>>

\* main.py:322-343
Writing(outcome) ==
    /\ pc = "writing"
    /\ writing_history' = History(WritingMessage(user_query, insights_content))
    /\ calls' = Append(calls, AgentCall("writer", outcome.kind))
    /\ IF outcome.kind = "raise"
       THEN /\ Propagate("writer", outcome.msg)
            /\ UNCHANGED <<writing_result, newsletter_draft>>
       ELSE /\ writing_result' = outcome.value
            /\ newsletter_draft' = ExtractWriting(outcome.value)
            /\ pc' = "editing"
            /\ UNCHANGED raised
    /\ UNCHANGED mainVars
    /\ UNCHANGED <<primary_search_results, secondary_search_results,
                   search_summary, research_history, insights_history,
                   editing_history, research_result, insights_result,
                   editing_result, research_content, insights_content,
                   final_newsletter, result>>

\* main.py:376-381
PipelineResult(research, insights, draft, final) ==
    [research |-> research, insights |-> insights, draft |-> draft,
     final |-> final]

\* main.py:345-381, and the return to main.py:416
Editing(outcome) ==
    /\ pc = "editing"
    /\ editing_history' = History(EditingMessage(user_query, newsletter_draft))
    /\ calls' = Append(calls, AgentCall("editor", outcome.kind))
    /\ IF outcome.kind = "raise"
       THEN /\ Propagate("editor", outcome.msg)
            /\ UNCHANGED <<editing_result, final_newsletter, result>>
       ELSE /\ editing_result' = outcome.value
            /\ final_newsletter' = ExtractEditing(outcome.value)
            /\ result' = PipelineResult(research_content, insights_content,
                                        newsletter_draft,
                                        ExtractEditing(outcome.value))
            /\ pc' = "show"
            /\ UNCHANGED raised
    /\ UNCHANGED mainVars
    /\ UNCHANGED <<primary_search_results, secondary_search_results,
                   search_summary, research_history, insights_history,
                   writing_history, research_result, insights_result,
                   writing_result, research_content, insights_content,
                   newsletter_draft>>

----------------------------------------------------------------------------
(* The command-line entry, after the pipeline. *)

\* main.py:418-432, then the end of the script
ShowResult(answer) ==
    /\ pc = "show"
    /\ printed' = printed \cup {"final"}
                  \cup (IF Lower(answer) = <<"y">> THEN {"details"} ELSE {})
    /\ exit_status' = 0
    /\ pc' = "exited"
    /\ UNCHANGED <<exa_api_key, proceed, agents, user_query>>
    /\ UNCHANGED pipelineVars

\* main.py:433-437, then the end of the script
HandleError ==
    /\ pc = "handler"
    /\ printed' = printed \cup {"error_line", "traceback", "advice"}
    /\ exit_status' = 0
    /\ pc' = "exited"
    /\ UNCHANGED <<exa_api_key, proceed, agents, user_query>>
    /\ UNCHANGED pipelineVars

----------------------------------------------------------------------------

Next ==
    \/ \E env \in Environments : ReadEnvironment(env)
    \/ \E answer \in Answers : Gate(answer)
    \/ CreateAgents
    \/ \E argv \in ArgumentLists, typed \in Topics : GetUserQuery(argv, typed)
    \/ \E outcome \in ToolOutcomes(PrimaryQueryPrefix \o user_query,
                                   PrimaryDaysAgo) : PrimarySearch(outcome)
    \/ \E outcome \in ToolOutcomes(SecondaryQueryPrefix \o user_query,
                                   SecondaryDaysAgo) : SecondarySearch(outcome)
    \/ BuildDigest
    \/ \E outcome \in AgentOutcomes : Research(outcome)
    \/ \E outcome \in AgentOutcomes : Insights(outcome)
    \/ \E outcome \in AgentOutcomes : Writing(outcome)
    \/ \E outcome \in AgentOutcomes : Editing(outcome)
    \/ \E answer \in Answers : ShowResult(answer)
    \/ HandleError

Spec == Init /\ [][Next]_vars

----------------------------------------------------------------------------
(* What the properties below read from the state. *)

AgentNames == <<"researcher", "insights_expert", "writer", "editor">>

ResultKeys == {"research", "insights", "draft", "final"}

IsAgentCall(c) == c.callee # "search_tool"

\* The searches of this run that failed, by returning success false or by
\* raising.
FailedSearches ==
    {i \in DOMAIN calls : ~IsAgentCall(calls[i]) /\ calls[i].outcome # "ok"}

\* The agent calls of this run that raised.
RaisedAgentCalls ==
    {i \in DOMAIN calls : IsAgentCall(calls[i]) /\ calls[i].outcome = "raise"}

\* The agents invoked so far, in order.
AgentsInvoked ==
    SelectSeq([i \in DOMAIN calls |-> calls[i].callee],
              LAMBDA n : n # "search_tool")

\* run_pipeline has been entered and has ended, by return or by exception.
PipelineEnded == pc \in {"show", "handler"} \/ (pc = "exited" /\ calls # <<>>)

\* run_pipeline returned a result to main.py:416.
PipelineReturned == DOMAIN result # {"unset"}

----------------------------------------------------------------------------
(* C1: a failed search, whether the tool returns success false or raises,  *)
(* never raises out of run_pipeline: no exception in flight comes from the *)
(* search tool, and when no agent call raised the run still invokes the    *)
(* four agents in order and returns a result.                              *)
C1_SearchFailureNotFatal ==
    /\ raised.origin # "search_tool"
    /\ (PipelineEnded /\ RaisedAgentCalls = {})
          => /\ AgentsInvoked = AgentNames
             /\ PipelineReturned
             /\ DOMAIN result = ResultKeys

\* Both searches failed, one by raising and one by success false, and the
\* run returned its result after all four agents.
C1_Witness ==
    /\ pc = "show"
    /\ Len(calls) = 6
    /\ calls[1].outcome = "raise"
    /\ calls[2].outcome = "fail"
    /\ AgentsInvoked = AgentNames
    /\ DOMAIN result = ResultKeys

----------------------------------------------------------------------------
(* C2: when all four agent calls return, the result has exactly the keys   *)
(* research, insights, draft and final, and each value is a non-null       *)
(* string, whatever the shape of the response objects.                     *)
C2_ResultFourStrings ==
    PipelineReturned
        => /\ DOMAIN result = ResultKeys
           /\ \A k \in ResultKeys : result[k].tag = "str"

----------------------------------------------------------------------------
(* C3: an agent call that raises ends the run with that error: the failing *)
(* call is the last call of the run (no retry, no later agent), the        *)
(* exception in flight is the one it raised, and no result is returned.    *)
C3_AgentFailurePropagates ==
    \A i \in RaisedAgentCalls :
        /\ i = Len(calls)
        /\ pc \in {"handler", "exited"}
        /\ raised.origin = calls[i].callee
        /\ ~PipelineReturned
        /\ Len(AgentsInvoked) = i - 2

\* The writer raised: the editor is never called and nothing is returned.
C3_Witness ==
    /\ pc = "handler"
    /\ Len(calls) = 5
    /\ calls[5].callee = "writer"
    /\ calls[5].outcome = "raise"
    /\ raised.origin = "writer"
    /\ research_content # Unset
    /\ insights_content # Unset
    /\ ~PipelineReturned

----------------------------------------------------------------------------
(* C4: when an exception propagates out of run_pipeline, the entry point   *)
(* prints an error line and a trace and the process exits with a non-zero  *)
(* status; status 0 means the run completed without such a failure.        *)
C4_FailureExitsNonZero ==
    (pc = "exited" /\ raised.origin # "none")
        => /\ {"error_line", "traceback"} \subseteq printed
           /\ exit_status # 0

----------------------------------------------------------------------------
(* C5: with the credential absent and the continuation refused, the        *)
(* process exits with status 1 before the agents are constructed and       *)
(* before any search or agent call; with the credential present the gate   *)
(* is never shown.                                                         *)
C5_DeclinedGateExitsFirst ==
    /\ (pc \notin {"start", "gate"} /\ ~Truthy(exa_api_key)
        /\ proceed # <<"y">>)
          => /\ pc = "exited"
             /\ exit_status = 1
             /\ agents = "none"
             /\ calls = <<>>
    /\ exit_status = 1 => (~Truthy(exa_api_key) /\ "prompt" \in printed)
    /\ (pc # "start" /\ Truthy(exa_api_key))
          => /\ printed \cap {"warning", "prompt"} = {}
             /\ proceed = <<>>
             /\ pc # "gate"

\* The credential is absent, the user answered n, the process has exited.
C5_Witness ==
    /\ pc = "exited"
    /\ exa_api_key = None
    /\ proceed = <<"n">>
    /\ exit_status = 1
    /\ agents = "none"

----------------------------------------------------------------------------
(* C6: at each of the four stages the output text is taken from the        *)
(* response object by one precedence of field names: response_message if   *)
(* the object has it, else content, else response_content, else str() of   *)
(* the object.  A response that has only content yields that field.        *)
RecognizedFields == <<"response_message", "content", "response_content">>

\* The value of the first recognized field the object has, else its str().
FirstRecognized(o) ==
    LET present == {i \in DOMAIN RecognizedFields : RecognizedFields[i] \in o.has}
    IN  IF present = {} THEN Str(o.repr)
        ELSE o[RecognizedFields[CHOOSE i \in present :
                                    \A j \in present : i <= j]]

StageOutputs ==
    <<<<research_result, research_content>>,
      <<insights_result, insights_content>>,
      <<writing_result, newsletter_draft>>,
      <<editing_result, final_newsletter>>>>

C6_FieldPrecedence ==
    \A n \in DOMAIN StageOutputs :
        LET o == StageOutputs[n][1]
            text == StageOutputs[n][2]
        IN  IF o = NoResponse THEN text = Unset
            ELSE /\ text = FirstRecognized(o)
                 /\ o.has = {"content"} => (text = o.content /\ text # Str(o.repr))

\* The writer's response has only content; the draft is that field's value.
C6_Witness ==
    /\ pc = "editing"
    /\ research_result = RespMessage
    /\ insights_result = RespResponseContent
    /\ writing_result = RespContentOnly
    /\ newsletter_draft = RespContentOnly.content
    /\ newsletter_draft.v # RespContentOnly.repr

----------------------------------------------------------------------------
(* C7: the collaborator calls of a run occur in one fixed order, each at   *)
(* most once: primary search (30 days), secondary search (60 days, made    *)
(* whether or not the primary succeeded), researcher, insights expert,     *)
(* writer, editor; a call is made only when the output of the call before  *)
(* it is available.                                                        *)
CallOrder ==
    <<[callee |-> "search_tool", days_ago |-> PrimaryDaysAgo,
       query |-> PrimaryQueryPrefix \o user_query],
      [callee |-> "search_tool", days_ago |-> SecondaryDaysAgo,
       query |-> SecondaryQueryPrefix \o user_query],
      [callee |-> "researcher", days_ago |-> 0, query |-> <<>>],
      [callee |-> "insights_expert", days_ago |-> 0, query |-> <<>>],
      [callee |-> "writer", days_ago |-> 0, query |-> <<>>],
      [callee |-> "editor", days_ago |-> 0, query |-> <<>>]>>

\* Whether the output of the i-th call of CallOrder has been stored.
OutputAvailable(i) ==
    IF i = 1 THEN DOMAIN primary_search_results # {"unset"}
    ELSE IF i = 2 THEN DOMAIN secondary_search_results # {"unset"}
    ELSE IF i = 3 THEN research_content # Unset
    ELSE IF i = 4 THEN insights_content # Unset
    ELSE IF i = 5 THEN newsletter_draft # Unset
    ELSE final_newsletter # Unset

C7_CallsInFixedOrder ==
    /\ Len(calls) <= Len(CallOrder)
    /\ \A i \in DOMAIN calls :
          /\ calls[i].callee = CallOrder[i].callee
          /\ calls[i].days_ago = CallOrder[i].days_ago
          /\ calls[i].query = CallOrder[i].query
          /\ i > 1 => OutputAvailable(i - 1)
    /\ pc \in {"digest", "research", "insights", "writing", "editing", "show"}
          => /\ Len(calls) >= 2
             /\ calls[2].days_ago = SecondaryDaysAgo

\* All six calls were made, the secondary search after a failed primary.
C7_Witness ==
    /\ pc = "show"
    /\ Len(calls) = 6
    /\ calls[1].outcome = "fail"
    /\ calls[2].outcome = "ok"
    /\ calls[6].callee = "editor"

----------------------------------------------------------------------------
(* Reading text. *)

\* pat occurs in s at index i.
OccursAt(s, pat, i) ==
    /\ i >= 1
    /\ i + Len(pat) - 1 <= Len(s)
    /\ \A j \in 1..Len(pat) : s[i + j - 1] = pat[j]

Occurrences(s, pat) == {i \in 1..Len(s) : OccursAt(s, pat, i)}

Contains(s, pat) == \E i \in 1..(Len(s) - Len(pat) + 1) : OccursAt(s, pat, i)

\* The first index from `from` on at which pat occurs in s, or 0.
Find(s, pat, from) ==
    LET at == {i \in from..Len(s) : OccursAt(s, pat, i)}
    IN  IF at = {} THEN 0 ELSE CHOOSE i \in at : \A j \in at : i <= j

RECURSIVE ContainsInOrder(_, _, _)
\* The texts of `items` occur in s one after the other, from `from` on.
ContainsInOrder(s, items, from) ==
    IF items = <<>> THEN TRUE
    ELSE LET k == Find(s, Head(items), from)
         IN  /\ k > 0
             /\ ContainsInOrder(s, Tail(items), k + Len(Head(items)))

StartsWith(s, pat) == OccursAt(s, pat, 1)

EndsWith(s, pat) == OccursAt(s, pat, Len(s) - Len(pat) + 1)

\* The text of s between a leading and a closing text.
Between(s, lead, close) == SubSeq(s, Len(lead) + 1, Len(s) - Len(close))

\* The research prompt has been built and nothing later has happened.
ResearchJustCalled ==
    \/ pc = "insights"
    \/ pc = "handler" /\ raised.origin = "researcher"

\* The insights prompt has been built and nothing later has happened.
InsightsJustCalled ==
    \/ pc = "writing"
    \/ pc = "handler" /\ raised.origin = "insights_expert"

ResearchPrompt == research_history[1].content

InsightsPrompt == insights_history[1].content

\* The digest as the research prompt embeds it.
ResearchDigest ==
    Between(ResearchPrompt, ResearchTask \o user_query \o DotBlank,
            Blank \o ResearchTail)

----------------------------------------------------------------------------
(* C8: the digest in the research prompt has a section for a search if and *)
(* only if that search returned success true; with the primary successful  *)
(* and the secondary failed it has the primary section only, and the       *)
(* prompt holds the title and the truncated preview of every primary       *)
(* result, in the provider's order.                                        *)
PrimaryHead == SearchFor \o PrimaryQueryPrefix \o user_query \o Found

SecondaryHead == SearchFor \o SecondaryQueryPrefix \o user_query \o Found

\* What the prompt must show of result i: its number, its title when it has
\* one, its preview cut to PreviewCut when it has one.
ResultItems(i, r) ==
    <<ResultOpen \o IntStr(i) \o ResultClose>>
    \o (IF Get(r, "title").tag = "str"
        THEN <<TitleLabel \o Get(r, "title").v \o Newline>> ELSE <<>>)
    \o (IF Truthy(Get(r, "content_preview"))
        THEN <<PreviewLabel \o Take(Get(r, "content_preview").v, PreviewCut)
               \o Ellipsis>>
        ELSE <<>>)

RECURSIVE ItemsFrom(_, _)
ItemsFrom(results, i) ==
    IF i > Len(results) THEN <<>>
    ELSE ResultItems(i, results[i]) \o ItemsFrom(results, i + 1)

\* What the tool returned to the n-th search of the run.
Succeeded(n) == calls[n].outcome = "ok"

C8_DigestSections ==
    ResearchJustCalled =>
        /\ Contains(ResearchPrompt, PrimaryHead) <=> Succeeded(1)
        /\ Contains(ResearchPrompt, SecondaryHead) <=> Succeeded(2)
        /\ Cardinality(Occurrences(ResearchPrompt, SearchFor))
              = Cardinality({n \in 1..2 : Succeeded(n)})
        /\ Succeeded(1) =>
              ContainsInOrder(ResearchPrompt,
                  <<PrimaryHead>>
                  \o ItemsFrom(GetResults(primary_search_results), 1)
                  \o (IF Succeeded(2) THEN <<SecondaryHead>> ELSE <<>>),
                  1)
        /\ Succeeded(2) =>
              ContainsInOrder(ResearchPrompt,
                  <<SecondaryHead>>
                  \o ItemsFrom(GetResults(secondary_search_results), 1),
                  1)

\* Two primary results, the secondary search failed: one section, and both
\* results' previews in the prompt.
C8_Witness ==
    /\ pc = "insights"
    /\ Succeeded(1)
    /\ Len(GetResults(primary_search_results)) = 2
    /\ calls[2].outcome = "fail"
    /\ Contains(ResearchPrompt, PrimaryHead)
    /\ ~Contains(ResearchPrompt, SecondaryHead)
    /\ Contains(ResearchPrompt, TitleLabel \o RecordLong.title.v \o Newline)
    /\ Contains(ResearchPrompt,
                PreviewLabel \o RecordNoTitle.content_preview.v \o Ellipsis)

----------------------------------------------------------------------------
(* C9, as amended: the insights prompt embeds the first SummaryCut         *)
(* characters of the whole digest (header, primary section, secondary      *)
(* section, cut wherever the 1000th character falls), followed by "...",   *)
(* after the str() of the research-stage output, which is not cut.         *)
InsightsLead ==
    InsightsTask \o user_query \o DotBlank \o ResearchToAnalyze
    \o PyStr(research_content) \o Blank \o AlsoConsider

InsightsClose == Ellipsis \o Blank \o InsightsTail

\* The digest as the insights prompt embeds it.
InsightsDigest == Between(InsightsPrompt, InsightsLead, InsightsClose)

C9_InsightsDigestIsPrefix ==
    InsightsJustCalled =>
        /\ StartsWith(InsightsPrompt, InsightsLead)
        /\ EndsWith(InsightsPrompt, InsightsClose)
        /\ Len(InsightsDigest) <= SummaryCut
        /\ StartsWith(ResearchDigest, InsightsDigest)
        /\ Len(InsightsDigest) < SummaryCut => InsightsDigest = ResearchDigest

\* The digest is longer than the cut and the cut falls in the secondary
\* section.
C9_Witness ==
    /\ pc = "writing"
    /\ Len(ResearchDigest) > SummaryCut
    /\ Len(InsightsDigest) = SummaryCut
    /\ InsightsDigest # ResearchDigest
    /\ Len(SummaryHeader \o PrimarySection(primary_search_results)) < SummaryCut
    /\ Len(PyStr(research_content)) > 0

(* C9, as stated: the digest in the insights prompt is the digest of both  *)
(* result sets with the secondary search's part cut to its first 1000      *)
(* characters.                                                             *)
C9_SecondaryPartCut ==
    InsightsJustCalled =>
        InsightsDigest = SummaryHeader
                         \o PrimarySection(primary_search_results)
                         \o Take(SecondarySection(secondary_search_results),
                                 SummaryCut)

----------------------------------------------------------------------------
(* C10: formatting the results of a successful search never raises, and a  *)
(* field that is absent from a record renders as empty text, never as the  *)
(* word None.                                                              *)
C10_AbsentFieldsRenderEmpty ==
    pc = "research" =>
        /\ raised = NoException
        /\ \A label \in {TitleLabel, UrlLabel, PublishedLabel} :
              ~Contains(search_summary, label \o NoneText)

----------------------------------------------------------------------------
(* C11: for every result of either search and every length of its preview, *)
(* the preview text in the digest is the first min(length, PreviewCut)     *)
(* characters of the original, followed only by the fixed suffix; no more  *)
(* than PreviewCut characters of one preview reach any agent prompt.       *)

\* The previews the provider returned that are written to the digest, in
\* the order of the digest: those of the successful searches that are not
\* empty.
RECURSIVE PreviewsOf(_, _)
PreviewsOf(results, i) ==
    IF i > Len(results) THEN <<>>
    ELSE (IF Truthy(Get(results[i], "content_preview"))
          THEN <<Get(results[i], "content_preview").v>> ELSE <<>>)
         \o PreviewsOf(results, i + 1)

ReturnedPreviews ==
    PreviewsOf(GetResults(primary_search_results), 1)
    \o PreviewsOf(GetResults(secondary_search_results), 1)

RECURSIVE PreviewChunks(_, _)
\* The texts that stand in s between a preview label and the suffix that
\* follows it, from index `from` on.
PreviewChunks(s, from) ==
    LET k == Find(s, PreviewLabel, from)
        b == k + Len(PreviewLabel)
        e == IF k = 0 THEN 0 ELSE Find(s, PreviewSuffix, b)
    IN  IF k = 0 \/ e = 0 THEN <<>>
        ELSE <<SubSeq(s, b, e - 1)>> \o PreviewChunks(s, e + Len(PreviewSuffix))

Min(a, b) == IF a < b THEN a ELSE b

\* No run of more than PreviewCut characters of a returned preview is in s.
NoLongerRun(s) ==
    Len(s) > PreviewCut =>
        \A n \in DOMAIN ReturnedPreviews :
            LET p == ReturnedPreviews[n]
            IN  Len(p) > PreviewCut
                   => \A first \in 1..(Len(p) - PreviewCut) :
                         ~Contains(s, SubSeq(p, first, first + PreviewCut))

\* The prompt of each stage, checked once, right after it is built.
PromptJustBuilt ==
    IF ResearchJustCalled THEN ResearchPrompt
    ELSE IF InsightsJustCalled THEN InsightsPrompt
    ELSE IF pc = "editing" \/ (pc = "handler" /\ raised.origin = "writer")
         THEN writing_history[1].content
    ELSE IF pc = "show" \/ (pc = "handler" /\ raised.origin = "editor")
         THEN editing_history[1].content
    ELSE <<>>

C11_PreviewCut ==
    /\ ResearchJustCalled =>
          LET chunks == PreviewChunks(ResearchPrompt, 1)
          IN  /\ Len(chunks) = Len(ReturnedPreviews)
              /\ \A n \in DOMAIN chunks :
                    /\ Len(chunks[n]) = Min(Len(ReturnedPreviews[n]), PreviewCut)
                    /\ chunks[n] = SubSeq(ReturnedPreviews[n], 1, Len(chunks[n]))
    /\ NoLongerRun(PromptJustBuilt)

\* A preview longer than the cut and one exactly as long as the cut are in
\* the digest: the first is cut to PreviewCut characters, the second whole.
C11_Witness ==
    /\ pc = "insights"
    /\ Len(ReturnedPreviews) >= 3
    /\ Len(ReturnedPreviews[1]) > PreviewCut
    /\ \E n \in DOMAIN ReturnedPreviews : Len(ReturnedPreviews[n]) = PreviewCut
    /\ \E n \in DOMAIN ReturnedPreviews : Len(ReturnedPreviews[n]) < PreviewCut
    /\ Len(PreviewChunks(ResearchPrompt, 1)[1]) = PreviewCut
    /\ Contains(ResearchPrompt,
                PreviewLabel \o Take(RecordLong.content_preview.v, PreviewCut)
                \o PreviewSuffix)

----------------------------------------------------------------------------
(* C12: every agent is given a fresh history of exactly one user turn,     *)
(* built from the topic and the stage's own input only: the digest for     *)
(* research, the research text and the digest prefix for insights, the     *)
(* insights text for writing, the draft for editing.  No history holds an  *)
(* earlier stage's prompt or turns, nor an output other than the one just  *)
(* before it.                                                              *)
WritingJustCalled ==
    \/ pc = "editing"
    \/ pc = "handler" /\ raised.origin = "writer"

EditingJustCalled ==
    \/ pc = "show"
    \/ pc = "handler" /\ raised.origin = "editor"

Histories ==
    <<research_history, insights_history, writing_history, editing_history>>

\* A history is empty before its stage and one user turn from then on.
OneUserTurn(h) == Len(h) <= 1 /\ \A i \in DOMAIN h : h[i].role = "user"

\* None of `texts` is in s, except those that are part of `input`, the
\* text the stage is meant to see.
SeesNoneOf(s, texts, input) ==
    \A n \in DOMAIN texts :
        LET t == texts[n]
        IN  Len(t) > 0 /\ ~Contains(input, t) => ~Contains(s, t)

C12_OneTurnOwnInput ==
    /\ \A n \in DOMAIN Histories : OneUserTurn(Histories[n])
    /\ \A n \in DOMAIN Histories :
          Len(Histories[n]) = 1 <=> Len(calls) >= n + 2
    /\ ResearchJustCalled =>
          /\ ResearchPrompt
                = ResearchTask \o user_query \o DotBlank \o search_summary
                  \o Blank \o ResearchTail
          /\ SeesNoneOf(ResearchPrompt,
                        <<InsightsTask, WritingTask, EditingTask>>, <<>>)
    /\ InsightsJustCalled =>
          /\ StartsWith(InsightsPrompt, InsightsLead)
          /\ EndsWith(InsightsPrompt, InsightsClose)
          /\ StartsWith(search_summary, InsightsDigest)
          /\ SeesNoneOf(InsightsPrompt,
                        <<ResearchTask, ResearchTail, WritingTask, EditingTask>>,
                        <<>>)
    /\ WritingJustCalled =>
          LET prompt == writing_history[1].content
              input == PyStr(insights_content)
          IN  /\ prompt = WritingTask \o user_query \o WritingTail \o input
              /\ SeesNoneOf(prompt, <<SummaryHeader, PyStr(research_content)>>,
                            input)
    /\ EditingJustCalled =>
          LET prompt == editing_history[1].content
              input == PyStr(newsletter_draft)
          IN  /\ prompt = EditingTask \o user_query \o EditingTail \o input
              /\ SeesNoneOf(prompt,
                            <<PyStr(research_content), PyStr(insights_content)>>,
                            input)

\* All four stages ran on three different texts: the writer's turn holds the
\* insights text and not the research text, the editor's the draft only.
C12_Witness ==
    /\ pc = "show"
    /\ \A n \in DOMAIN Histories : Len(Histories[n]) = 1
    /\ research_content = RespMessage.response_message
    /\ insights_content = RespContentOnly.content
    /\ newsletter_draft = RespResponseContent.response_content
    /\ Contains(writing_history[1].content, PyStr(insights_content))
    /\ ~Contains(writing_history[1].content, PyStr(research_content))
    /\ Contains(editing_history[1].content, PyStr(newsletter_draft))
    /\ ~Contains(editing_history[1].content, PyStr(insights_content))
    /\ Len(search_summary) > Len(SummaryHeader)

====
